---- MODULE Spec2Model ----
(***************************************************************************)
(* State-machine model of backend/crud.py: the data access functions for   *)
(* users, domains, pages, sections and media over one SQLAlchemy session.  *)
(*                                                                         *)
(* Every function of crud.py that the checked properties talk about is one *)
(* action.  A call runs to completion (one session, one caller), so an     *)
(* action is the whole function body, commits included.  The variable      *)
(* `last` records the most recent call: its name, its arguments and what   *)
(* it returned or raised.                                                  *)
(*                                                                         *)
(* Columns that can hold SQL NULL / Python None are modelled as options:   *)
(* None is <<>> and a present value v is <<v>>.                            *)
(***************************************************************************)
EXTENDS Integers, Sequences, FiniteSets, TLC

VARIABLES
    users,          \* table users:    set of rows [id, email, password]
    nextUserId,     \* autoincrement counter of users.id
    domains,        \* table domains:  set of rows [id, user_id]
    nextDomainId,
    pages,          \* table pages:    set of rows [id, domain_id, title, hierarchy]
    nextPageId,
    sections,       \* table sections: set of rows [id, page_id, type, title]
    nextSectionId,
    media,          \* table media:    set of rows [id, title, text, section_id]
    nextMediaId,
    last            \* the most recent call and its outcome

vars == <<users, nextUserId, domains, nextDomainId, pages, nextPageId,
          sections, nextSectionId, media, nextMediaId, last>>

userVars == <<users, nextUserId>>
siteVars == <<domains, nextDomainId, pages, nextPageId, sections, nextSectionId>>
mediaVars == <<media, nextMediaId>>
vars_but_last == <<userVars, siteVars, mediaVars>>

(***************************************************************************)
(* Bounds of the model.                                                    *)
(***************************************************************************)
MaxUsers == 2       \* create_user succeeds at most this often
NumSalts == 2       \* bcrypt.gensalt() draws from this many salts

(***************************************************************************)
(* Options and outcomes.                                                   *)
(***************************************************************************)
None == <<>>
Some(v) == <<v>>

\* Python truthiness of an optional string (None and "" are falsy) and of an
\* optional integer (None and 0 are falsy).
TruthyStr(opt) == opt # None /\ opt[1] # ""
TruthyInt(opt) == opt # None /\ opt[1] # 0

\* What a call produced: a returned value, or a raised HTTPException.
Returned(v) == [kind |-> "return", value |-> v]
HTTPException(code, text) == [kind |-> "HTTPException", status_code |-> code, detail |-> text]

(***************************************************************************)
(* Password hashing: hash_password / verify_password over bcrypt.          *)
(*                                                                         *)
(* A password is a sequence of Unicode code points.  str.encode('utf-8')   *)
(* turns it into bytes; bcrypt.hashpw keys on the salt and on the first    *)
(* BcryptMaxBytes bytes of the key only (the bcrypt algorithm ignores the  *)
(* rest), and is otherwise modelled as collision free: the digest is the   *)
(* pair of salt and significant key bytes.                                 *)
(***************************************************************************)
BcryptMaxBytes == 72

Utf8Char(cp) ==
    IF cp < 128 THEN <<cp>>
    ELSE IF cp < 2048 THEN <<192 + (cp \div 64), 128 + (cp % 64)>>
    ELSE <<224 + (cp \div 4096), 128 + ((cp \div 64) % 64), 128 + (cp % 64)>>

RECURSIVE Utf8(_)
Utf8(str) == IF str = <<>> THEN <<>> ELSE Utf8Char(Head(str)) \o Utf8(Tail(str))

BcryptKey(bytes) ==
    IF Len(bytes) > BcryptMaxBytes THEN SubSeq(bytes, 1, BcryptMaxBytes) ELSE bytes

BcryptHashpw(bytes, salt) == [salt |-> salt, digest |-> BcryptKey(bytes)]

\* bcrypt.checkpw: hash the candidate under the salt stored in the hash, compare.
BcryptCheckpw(bytes, hashed) == BcryptHashpw(bytes, hashed.salt) = hashed

Salts == 1..NumSalts

Repeat(cp, n) == [i \in 1..n |-> cp]

\* The passwords callers supply: "a", "b", a 73-character password, one that
\* differs from it only in the 73rd character, and a 72-character one whose
\* last character takes two bytes.
Passwords ==
    { <<97>>, <<98>>,
      Repeat(97, BcryptMaxBytes) \o <<120>>,
      Repeat(97, BcryptMaxBytes) \o <<121>>,
      Repeat(97, BcryptMaxBytes - 1) \o <<233>> }

\* password.encode('utf-8'), tabulated once over the passwords supplied
Encode == [password \in Passwords |-> Utf8(password)]

\* hash_password(password), with the salt gensalt() drew
hash_password(password, salt) == BcryptHashpw(Encode[password], salt)

verify_password(plain_password, hashed_password) ==
    BcryptCheckpw(Encode[plain_password], hashed_password)

(***************************************************************************)
(* Inputs of the user functions.                                           *)
(***************************************************************************)
Emails == {"ann@site.nl", "bob@site.nl"}

(***************************************************************************)
(* USERS                                                                   *)
(***************************************************************************)
\* db.query(models.User).filter(models.User.email == email): the matching rows;
\* .first() returns one of them, or None when there is none.
UsersByEmail(store, email) == {u \in store : u.email = email}

\* create_user without the look-up of the email: every call inserts.
create_user_unchecked(email, password) ==
    /\ \E salt \in Salts :
          LET db_user == [id |-> nextUserId, email |-> email,
                          password |-> hash_password(password, salt)]
          IN /\ nextUserId <= MaxUsers
             /\ users' = users \cup {db_user}
             /\ nextUserId' = nextUserId + 1
             /\ last' = [op |-> "create_user", email |-> email, password |-> password,
                         result |-> Returned(db_user)]
    /\ UNCHANGED <<domains, nextDomainId, pages, nextPageId, sections, nextSectionId,
                   media, nextMediaId>>

create_user(email, password) ==
    /\ IF UsersByEmail(users, email) # {}
       THEN /\ last' = [op |-> "create_user", email |-> email, password |-> password,
                        result |-> HTTPException(400, "Email already registered")]
            /\ UNCHANGED userVars
       ELSE \E salt \in Salts :
            LET db_user == [id |-> nextUserId, email |-> email,
                            password |-> hash_password(password, salt)]
            IN /\ nextUserId <= MaxUsers
               /\ users' = users \cup {db_user}
               /\ nextUserId' = nextUserId + 1
               /\ last' = [op |-> "create_user", email |-> email, password |-> password,
                           result |-> Returned(db_user)]
    /\ UNCHANGED <<siteVars, mediaVars>>

\* The values authenticate_user can return on a store: .first() picks any
\* matching row when no ORDER BY is given.
AuthResults(store, email, password) ==
    IF UsersByEmail(store, email) = {}
    THEN {Returned(None)}
    ELSE { IF verify_password(password, u.password) THEN Returned(Some(u)) ELSE Returned(None)
           : u \in UsersByEmail(store, email) }

\* authenticate_user without the verify_password test: a known email is enough.
authenticate_user_any_password(email, password) ==
    /\ \E r \in IF UsersByEmail(users, email) = {}
                THEN {Returned(None)}
                ELSE {Returned(Some(u)) : u \in UsersByEmail(users, email)} :
          last' = [op |-> "authenticate_user", email |-> email, password |-> password,
                   result |-> r]
    /\ UNCHANGED vars_but_last

authenticate_user(email, password) ==
    /\ \E r \in AuthResults(users, email, password) :
          last' = [op |-> "authenticate_user", email |-> email, password |-> password,
                   result |-> r]
    /\ UNCHANGED <<userVars, siteVars, mediaVars>>

\* change_password without the test of the old password.
change_password_unchecked(user, old_password, new_password) ==
    /\ user \in users
    /\ \E salt \in Salts :
          LET updated == [user EXCEPT !.password = hash_password(new_password, salt)]
          IN /\ users' = (users \ {user}) \cup {updated}
             /\ last' = [op |-> "change_password", user |-> user,
                         old_password |-> old_password, new_password |-> new_password,
                         result |-> Returned(updated)]
    /\ UNCHANGED <<nextUserId, domains, nextDomainId, pages, nextPageId, sections,
                   nextSectionId, media, nextMediaId>>

\* change_password that hashes the old password again instead of the new one.
change_password_rehash_old(user, old_password, new_password) ==
    /\ user \in users
    /\ IF ~verify_password(old_password, user.password)
       THEN /\ last' = [op |-> "change_password", user |-> user, old_password |-> old_password,
                        new_password |-> new_password,
                        result |-> HTTPException(403, "Old password is incorrect")]
            /\ UNCHANGED users
       ELSE \E salt \in Salts :
            LET updated == [user EXCEPT !.password = hash_password(old_password, salt)]
            IN /\ users' = (users \ {user}) \cup {updated}
               /\ last' = [op |-> "change_password", user |-> user,
                           old_password |-> old_password, new_password |-> new_password,
                           result |-> Returned(updated)]
    /\ UNCHANGED <<nextUserId, domains, nextDomainId, pages, nextPageId, sections,
                   nextSectionId, media, nextMediaId>>

\* change_password(db, user, old_password, new_password); user is a loaded row.
change_password(user, old_password, new_password) ==
    /\ user \in users
    /\ IF ~verify_password(old_password, user.password)
       THEN /\ last' = [op |-> "change_password", user |-> user, old_password |-> old_password,
                        new_password |-> new_password,
                        result |-> HTTPException(403, "Old password is incorrect")]
            /\ UNCHANGED userVars
       ELSE \E salt \in Salts :
            LET updated == [user EXCEPT !.password = hash_password(new_password, salt)]
            IN /\ users' = (users \ {user}) \cup {updated}
               /\ last' = [op |-> "change_password", user |-> user,
                           old_password |-> old_password, new_password |-> new_password,
                           result |-> Returned(updated)]
               /\ UNCHANGED nextUserId
    /\ UNCHANGED <<siteVars, mediaVars>>

(***************************************************************************)
(* SQL three-valued logic for the WHERE clauses that compare a nullable    *)
(* column: a comparison with NULL is NULL, and a row is kept only when the *)
(* whole clause is TRUE.                                                   *)
(***************************************************************************)
SqlEq(col, v) == IF col = None THEN "NULL" ELSE IF col[1] = v THEN "TRUE" ELSE "FALSE"
SqlNe(col, v) == IF col = None THEN "NULL" ELSE IF col[1] # v THEN "TRUE" ELSE "FALSE"
SqlAnd(a, b) ==
    IF a = "FALSE" \/ b = "FALSE" THEN "FALSE"
    ELSE IF a = "NULL" \/ b = "NULL" THEN "NULL" ELSE "TRUE"

(***************************************************************************)
(* Inputs of the domain, page and section functions.                       *)
(***************************************************************************)
MaxSiteRows == 5    \* domains, pages and sections inserted, all together
MaxNewSections == 2 \* longest sections list handed to create_page

\* rows inserted so far into domains, pages and sections
SiteRows == (nextDomainId - 1) + (nextPageId - 1) + (nextSectionId - 1)

UserIds == {1, 2}                   \* users that own domains and send requests
Hierarchies == {0, 1}               \* Page.hierarchy, the sort key
PageTitles == {"Home"}
SectionTypes == {None, Some(""), Some("text")}
SectionTitles == {None, Some("is"), Some("hero")}

\* SectionCreate objects as section.dict() renders them
SectionInputs(pageRefs) ==
    [page_id : pageRefs, type : SectionTypes, title : SectionTitles]

PageIds(store) == {p.id : p \in store}

\* str(row.id): the decimal digits of a non-negative integer
Digit(d) == <<"0", "1", "2", "3", "4", "5", "6", "7", "8", "9">>[d + 1]
RECURSIVE Str(_)
Str(n) == IF n < 10 THEN Digit(n) ELSE Str(n \div 10) \o Digit(n % 10)

(***************************************************************************)
(* DOMAINS                                                                 *)
(***************************************************************************)
create_domain(user_id) ==
    LET db_domain == [id |-> nextDomainId, user_id |-> user_id]
    IN /\ SiteRows < MaxSiteRows
       /\ domains' = domains \cup {db_domain}
       /\ nextDomainId' = nextDomainId + 1
       /\ last' = [op |-> "create_domain", result |-> Returned(db_domain)]
       /\ UNCHANGED <<pages, nextPageId, sections, nextSectionId, userVars, mediaVars>>

\* db.query(models.Domain).filter(models.Domain.user_id == user_id).all(),
\* then [domain.id for domain in domains]
DomainIdsOfUser(store, user_id) == {d.id : d \in {x \in store : x.user_id = user_id}}

(***************************************************************************)
(* SECTIONS                                                                *)
(***************************************************************************)
\* data = section.dict(); if page_id: data["page_id"] = page_id
SectionData(section, page_id) ==
    IF TruthyInt(page_id) THEN [section EXCEPT !.page_id = page_id] ELSE section

\* models.Section(**data) with the generated id
SectionRow(data, id) ==
    [id |-> id, page_id |-> data.page_id, type |-> data.type, title |-> data.title]

\* create_section that rejects a missing type only: an empty one is inserted.
create_section_none_only(section, page_id) ==
    LET data == SectionData(section, page_id)
    IN /\ IF data.type = None
          THEN /\ last' = [op |-> "create_section", section |-> section, page_id |-> page_id,
                           result |-> HTTPException(400, "Section type is required")]
               /\ UNCHANGED <<sections, nextSectionId>>
          ELSE /\ SiteRows < MaxSiteRows
               /\ sections' = sections \cup {SectionRow(data, nextSectionId)}
               /\ nextSectionId' = nextSectionId + 1
               /\ last' = [op |-> "create_section", section |-> section, page_id |-> page_id,
                           result |-> Returned(SectionRow(data, nextSectionId))]
       /\ UNCHANGED <<domains, nextDomainId, pages, nextPageId, users, nextUserId,
                      media, nextMediaId>>

create_section(section, page_id) ==
    LET data == SectionData(section, page_id)
    IN /\ IF ~TruthyStr(data.type)
          THEN /\ last' = [op |-> "create_section", section |-> section, page_id |-> page_id,
                           result |-> HTTPException(400, "Section type is required")]
               /\ UNCHANGED <<sections, nextSectionId>>
          ELSE /\ SiteRows < MaxSiteRows
               /\ sections' = sections \cup {SectionRow(data, nextSectionId)}
               /\ nextSectionId' = nextSectionId + 1
               /\ last' = [op |-> "create_section", section |-> section, page_id |-> page_id,
                           result |-> Returned(SectionRow(data, nextSectionId))]
       /\ UNCHANGED <<domains, nextDomainId, pages, nextPageId, userVars, mediaVars>>

\* The rows of db.query(models.Section).filter((page_id == :page_id) & (title != "is")).
\* .all() gives them in no stated order: the result is modelled as their set.
SectionsOfPageQuery(store, page_id) ==
    {s \in store : SqlAnd(SqlEq(s.page_id, page_id), SqlNe(s.title, "is")) = "TRUE"}

SectionsByPageAndUser(page_id, user_id) ==
    LET domain_ids == DomainIdsOfUser(domains, user_id)
        page == {p \in pages : p.id = page_id /\ p.domain_id \in domain_ids}
    IN IF page = {} THEN {} ELSE SectionsOfPageQuery(sections, page_id)

get_sections_by_page_and_user(page_id, user_id) ==
    /\ last' = [op |-> "get_sections_by_page_and_user", page_id |-> page_id,
                user_id |-> user_id,
                result |-> Returned(SectionsByPageAndUser(page_id, user_id))]
    /\ UNCHANGED <<userVars, siteVars, mediaVars>>

(***************************************************************************)
(* PAGES                                                                   *)
(***************************************************************************)
\* for section in page.sections: create_section(db, section, page_id=db_page.id)
\* Each create_section commits its row; the first one that raises ends the loop
\* and the exception leaves create_page.
RECURSIVE SectionsLoop(_, _, _, _)
SectionsLoop(todo, page_id, store, nextId) ==
    IF todo = <<>>
    THEN [sections |-> store, nextId |-> nextId, raised |-> FALSE]
    ELSE LET data == SectionData(Head(todo), Some(page_id))
         IN IF ~TruthyStr(data.type)
            THEN [sections |-> store, nextId |-> nextId, raised |-> TRUE]
            ELSE SectionsLoop(Tail(todo), page_id,
                              store \cup {SectionRow(data, nextId)}, nextId + 1)

create_page(domain_id, title, hierarchy, page_sections) ==
    LET db_page == [id |-> nextPageId, domain_id |-> domain_id, title |-> title,
                    hierarchy |-> hierarchy]
        loop == SectionsLoop(page_sections, db_page.id, sections, nextSectionId)
    IN /\ SiteRows + 1 + (loop.nextId - nextSectionId) <= MaxSiteRows
       /\ pages' = pages \cup {db_page}
       /\ nextPageId' = nextPageId + 1
       /\ sections' = loop.sections
       /\ nextSectionId' = loop.nextId
       /\ last' = [op |-> "create_page", sections |-> page_sections,
                   result |-> IF loop.raised
                              THEN HTTPException(400, "Section type is required")
                              ELSE Returned(db_page)]
       /\ UNCHANGED <<domains, nextDomainId, userVars, mediaVars>>

\* Page JOIN Section: an inner join, which drops the pages that have no section.
InnerJoin(pageStore, sectionStore) ==
    UNION {{[page |-> p, section |-> Some(s)] :
               s \in {x \in sectionStore : SqlEq(x.page_id, p.id) = "TRUE"}} : p \in pageStore}

\* Page LEFT OUTER JOIN Section ON Page.id = Section.page_id: every page with each
\* of its sections, or with a NULL section when it has none.
OuterJoin(pageStore, sectionStore) ==
    UNION {{[page |-> p, section |-> Some(s)] :
               s \in {x \in sectionStore : SqlEq(x.page_id, p.id) = "TRUE"}} : p \in pageStore}
    \cup {[page |-> p, section |-> None] :
            p \in {x \in pageStore : \A s \in sectionStore : SqlEq(s.page_id, x.id) # "TRUE"}}

\* .filter(Page.domain_id.in_(domain_ids)).group_by(Page.id) with
\* func.count(Section.id): the joined rows of the group whose Section.id is not NULL.
PageSummaryRows(user_id) ==
    LET domain_ids == DomainIdsOfUser(domains, user_id)
        joined == {r \in OuterJoin(pages, sections) : r.page.domain_id \in domain_ids}
    IN {[id |-> r.page.id, title |-> r.page.title, hierarchy |-> r.page.hierarchy,
         sections |-> Cardinality({j \in joined : j.page.id = r.page.id /\ j.section # None})]
        : r \in joined}

\* .order_by(Page.hierarchy.asc()).all(): the rows in any order that ascends in
\* hierarchy (rows of equal hierarchy come in no stated order).
OrderedByHierarchy(rows) ==
    {seq \in [1..Cardinality(rows) -> rows] :
        /\ \A i, j \in 1..Cardinality(rows) : i # j => seq[i] # seq[j]
        /\ \A i, j \in 1..Cardinality(rows) : i < j => seq[i].hierarchy <= seq[j].hierarchy}

\* the list of dicts returned
PageSummaries(results) ==
    [i \in 1..Len(results) |->
        [id |-> Str(results[i].id), title |-> results[i].title,
         hierarchy |-> results[i].hierarchy, sections |-> results[i].sections]]

get_pages_by_user_id(user_id) ==
    /\ \E results \in OrderedByHierarchy(PageSummaryRows(user_id)) :
          last' = [op |-> "get_pages_by_user_id", user_id |-> user_id,
                   result |-> Returned(PageSummaries(results))]
    /\ UNCHANGED <<userVars, siteVars, mediaVars>>

(***************************************************************************)
(* MEDIA                                                                   *)
(***************************************************************************)
MaxMedia == 2       \* create_media succeeds at most this often

NewMediaTitles == {None, Some(""), Some("logo")}    \* MediaCreate.title
UpdateTitles == {Some(""), Some("banner")}          \* update_media(title: str)
MediaTexts == {None, Some("alt")}
SectionRefs == {None, Some(1)}

\* db.query(models.Media).filter(models.Media.id == media_id): the matching rows;
\* .first() returns one of them, or None when there is none.
MediaById(store, media_id) == {m \in store : m.id = media_id}

create_media(title, text, section_id) ==
    /\ IF ~TruthyStr(title)
       THEN /\ last' = [op |-> "create_media", title |-> title,
                        result |-> HTTPException(400, "Media title is required")]
            /\ UNCHANGED mediaVars
       ELSE LET db_media == [id |-> nextMediaId, title |-> title, text |-> text,
                             section_id |-> section_id]
            IN /\ nextMediaId <= MaxMedia
               /\ media' = media \cup {db_media}
               /\ nextMediaId' = nextMediaId + 1
               /\ last' = [op |-> "create_media", title |-> title,
                           result |-> Returned(db_media)]
    /\ UNCHANGED <<userVars, siteVars>>

\* delete_media without db.delete(media_item): the row is returned and stays.
delete_media_kept(media_id) ==
    /\ IF MediaById(media, media_id) = {}
       THEN last' = [op |-> "delete_media", media_id |-> media_id,
                     result |-> HTTPException(404, "Media item not found")]
       ELSE \E media_item \in MediaById(media, media_id) :
               last' = [op |-> "delete_media", media_id |-> media_id,
                        result |-> Returned(media_item)]
    /\ UNCHANGED vars_but_last

delete_media(media_id) ==
    /\ IF MediaById(media, media_id) = {}
       THEN /\ last' = [op |-> "delete_media", media_id |-> media_id,
                        result |-> HTTPException(404, "Media item not found")]
            /\ UNCHANGED mediaVars
       ELSE \E media_item \in MediaById(media, media_id) :
            /\ media' = media \ {media_item}
            /\ last' = [op |-> "delete_media", media_id |-> media_id,
                        result |-> Returned(media_item)]
            /\ UNCHANGED nextMediaId
    /\ UNCHANGED <<userVars, siteVars>>

update_media(media_id, title, text, section_id) ==
    /\ IF MediaById(media, media_id) = {}
       THEN /\ last' = [op |-> "update_media", media_id |-> media_id,
                        result |-> HTTPException(404, "Media item not found")]
            /\ UNCHANGED mediaVars
       ELSE \E media_item \in MediaById(media, media_id) :
            LET updated == [media_item EXCEPT !.title = title, !.text = text,
                                              !.section_id = section_id]
            IN /\ media' = (media \ {media_item}) \cup {updated}
               /\ last' = [op |-> "update_media", media_id |-> media_id,
                           result |-> Returned(updated)]
               /\ UNCHANGED nextMediaId
    /\ UNCHANGED <<userVars, siteVars>>

NextMedia ==
    \/ \E title \in NewMediaTitles, text \in MediaTexts, section_id \in SectionRefs :
          create_media(title, text, section_id)
    \/ \E media_id \in 1..MaxMedia : delete_media(media_id)
    \/ \E media_id \in 1..MaxMedia, title \in UpdateTitles, text \in MediaTexts,
          section_id \in SectionRefs :
          update_media(media_id, title, text, section_id)

NextUsers ==
    \/ \E email \in Emails, password \in Passwords : create_user(email, password)
    \/ \E email \in Emails, password \in Passwords : authenticate_user(email, password)
    \/ \E user \in users, old \in Passwords, new \in Passwords :
          change_password(user, old, new)

\* The sections lists create_page is called with: up to MaxNewSections sections.
SectionLists(inputs) == UNION {[1..n -> inputs] : n \in 0..MaxNewSections}

PageRefs == {None} \cup {Some(p) : p \in PageIds(pages)}

\* Pages with their sections: sections arrive through create_page only, with or
\* without a type, and the pages of a user are listed.
NextPages ==
    \/ \E user_id \in UserIds : create_domain(user_id)
    \/ \E domain_id \in {d.id : d \in domains}, title \in PageTitles,
          hierarchy \in Hierarchies,
          page_sections \in SectionLists([page_id : {None}, type : {Some(""), Some("text")},
                                          title : {Some("hero")}]) :
          create_page(domain_id, title, hierarchy, page_sections)
    \/ \E user_id \in UserIds : get_pages_by_user_id(user_id)

\* Sections of every type and title, created one by one (the page comes from the
\* page_id argument or not at all) under pages that are created without sections,
\* and listed per page and user.
NextSections ==
    \/ \E user_id \in UserIds : create_domain(user_id)
    \/ \E domain_id \in {d.id : d \in domains}, title \in PageTitles :
          create_page(domain_id, title, 0, <<>>)
    \/ \E section \in SectionInputs({None}), page_id \in PageRefs :
          create_section(section, page_id)
    \/ \E page_id \in PageIds(pages) \cup {nextPageId}, user_id \in UserIds :
          get_sections_by_page_and_user(page_id, user_id)

Init ==
    /\ users = {} /\ nextUserId = 1
    /\ domains = {} /\ nextDomainId = 1
    /\ pages = {} /\ nextPageId = 1
    /\ sections = {} /\ nextSectionId = 1
    /\ media = {} /\ nextMediaId = 1
    /\ last = [op |-> "none"]

SpecUsers == Init /\ [][NextUsers]_vars
SpecPages == Init /\ [][NextPages]_vars
SpecSections == Init /\ [][NextSections]_vars
SpecMedia == Init /\ [][NextMedia]_vars

\* All of crud.py at once.
Next == NextUsers \/ NextPages \/ NextSections \/ NextMedia
Spec == Init /\ [][Next]_vars

(***************************************************************************)
(* The checked properties.  A property of one call is an action property:  *)
(* `last'` names the call that took the step, the unprimed tables are the  *)
(* store before it and the primed tables the store after it.               *)
(***************************************************************************)

UniqueEmails == \A u, v \in users : u.email = v.email => u = v

CreateUserStep ==
    last'.op = "create_user" =>
        IF UsersByEmail(users, last'.email) # {}
        THEN /\ last'.result = HTTPException(400, "Email already registered")
             /\ users' = users
        ELSE \E u \in users' :
                /\ u \notin users
                /\ users' = users \cup {u}
                /\ u.email = last'.email
                /\ last'.result = Returned(u)

\* C1: no two stored users ever share an email: create_user with a stored email
\* raises "Email already registered" and leaves the users as they were, and with
\* a new email it adds exactly one user, who has that email.
C1_UniqueEmail == []UniqueEmails /\ [][CreateUserStep]_vars

\* a create_user call was refused while two users are stored
C1_Witness ==
    /\ last.op = "create_user"
    /\ last.result.kind = "HTTPException"
    /\ Cardinality(users) = 2

\* C2: authenticate_user returns the stored user exactly when a user with that
\* email exists and the password verifies against that user's hash, returns None
\* for an unknown email and for a wrong password alike, and changes no table.
C2_Authenticate ==
    [][last'.op = "authenticate_user" =>
        /\ UNCHANGED vars_but_last
        /\ LET match == {u \in users : /\ u.email = last'.email
                                       /\ verify_password(last'.password, u.password)}
           IN IF match = {}
              THEN last'.result = Returned(None)
              ELSE \E u \in match : last'.result = Returned(Some(u))]_vars

\* None came back for a wrong password of a known email
C2_Witness ==
    /\ last.op = "authenticate_user"
    /\ last.result = Returned(None)
    /\ UsersByEmail(users, last.email) # {}

\* C3: change_password with an old password that does not verify raises 403 and
\* leaves every user row as it was, so every password authenticates for that
\* user's email after the call exactly as it did before.
C3_WrongOldPassword ==
    [][(/\ last'.op = "change_password"
        /\ ~verify_password(last'.old_password, last'.user.password)) =>
        /\ last'.result = HTTPException(403, "Old password is incorrect")
        /\ users' = users
        /\ \A p \in Passwords :
              AuthResults(users', last'.user.email, p) = AuthResults(users, last'.user.email, p)]_vars

\* a change was refused for a user whom some password still authenticates
C3_Witness ==
    /\ last.op = "change_password"
    /\ last.result.kind = "HTTPException"
    /\ \E p \in Passwords :
          AuthResults(users, last.user.email, p) = {Returned(Some(last.user))}

\* C4, as stated: after change_password succeeds, the new password authenticates
\* the user and the old password does not, for every pair of old and new password.
C4_AsStated ==
    [][(last'.op = "change_password" /\ last'.result.kind = "return") =>
        /\ AuthResults(users', last'.user.email, last'.new_password)
              = {Returned(Some(last'.result.value))}
        /\ AuthResults(users', last'.user.email, last'.old_password)
              = {Returned(None)}]_vars

\* the first BcryptMaxBytes bytes of the UTF-8 encodings of two passwords differ
DifferInHashedBytes(p, q) == BcryptKey(Encode[p]) # BcryptKey(Encode[q])

\* C4, amended: after change_password succeeds, the new password authenticates
\* the user, and the old password does not provided the two passwords differ
\* within the first 72 bytes of their UTF-8 encodings.
C4_NewPasswordReplacesOld ==
    [][(last'.op = "change_password" /\ last'.result.kind = "return") =>
        /\ AuthResults(users', last'.user.email, last'.new_password)
              = {Returned(Some(last'.result.value))}
        /\ DifferInHashedBytes(last'.old_password, last'.new_password) =>
              AuthResults(users', last'.user.email, last'.old_password)
                 = {Returned(None)}]_vars

\* a password was changed to one that differs in the hashed bytes
C4_Witness ==
    /\ last.op = "change_password"
    /\ last.result.kind = "return"
    /\ DifferInHashedBytes(last.old_password, last.new_password)

\* the page exists and its domain belongs to the user
PageOwnedBy(page_id, user_id) ==
    \E p \in pages : /\ p.id = page_id
                     /\ \E d \in domains : d.id = p.domain_id /\ d.user_id = user_id

\* C5, as stated: get_sections_by_page_and_user returns nothing when the page
\* does not exist or its domain is not the user's, and otherwise exactly the
\* sections of that page whose title is not "is", whatever else their title is.
C5_SectionsOfPage ==
    last.op = "get_sections_by_page_and_user" =>
        last.result = Returned(
            IF PageOwnedBy(last.page_id, last.user_id)
            THEN {s \in sections : s.page_id = Some(last.page_id) /\ s.title # Some("is")}
            ELSE {})

\* C6: get_pages_by_user_id returns one summary for each page whose domain the
\* user owns and no other, each with the number of stored sections of that page
\* (0 when it has none), in ascending order of hierarchy.
C6_PagesOfUser ==
    last.op = "get_pages_by_user_id" =>
        LET r == last.result.value
            owned == {p \in pages : PageOwnedBy(p.id, last.user_id)}
        IN /\ Len(r) = Cardinality(owned)
           /\ \A p \in owned : \E i \in 1..Len(r) :
                 /\ r[i].id = Str(p.id)
                 /\ r[i].title = p.title
                 /\ r[i].hierarchy = p.hierarchy
                 /\ r[i].sections = Cardinality({s \in sections : s.page_id = Some(p.id)})
           /\ \A i, j \in 1..Len(r) : i < j => r[i].hierarchy <= r[j].hierarchy

\* the listing of the example: a page of hierarchy 0 without sections, then a
\* page of hierarchy 1 with two
C6_Witness ==
    /\ last.op = "get_pages_by_user_id"
    /\ Len(last.result.value) = 2
    /\ last.result.value[1].hierarchy = 0 /\ last.result.value[1].sections = 0
    /\ last.result.value[2].hierarchy = 1 /\ last.result.value[2].sections = 2

\* C7: create_section with a section whose type is empty or missing raises
\* "Section type is required" and inserts no section, whatever page_id is given.
C7_TypeRequired ==
    [][(last'.op = "create_section" /\ ~TruthyStr(last'.section.type)) =>
        /\ last'.result = HTTPException(400, "Section type is required")
        /\ sections' = sections
        /\ nextSectionId' = nextSectionId]_vars

\* a section with an empty type was refused under a given page_id, with sections stored
C7_Witness ==
    /\ last.op = "create_section"
    /\ last.section.type = Some("")
    /\ last.page_id # None
    /\ last.result.kind = "HTTPException"
    /\ sections # {}

DeleteMediaStep ==
    last'.op = "delete_media" =>
        IF MediaById(media, last'.media_id) = {}
        THEN /\ last'.result = HTTPException(404, "Media item not found")
             /\ media' = media
        ELSE \E m \in media :
                /\ m.id = last'.media_id
                /\ last'.result = Returned(m)
                /\ media' = media \ {m}

\* C8: delete_media of an id that is not stored raises 404 and leaves the media
\* as they were; of a stored id it removes that row only and returns it; after
\* either, a look-up of the id finds nothing (so a second delete raises 404).
C8_DeleteMedia ==
    /\ [](last.op = "delete_media" => MediaById(media, last.media_id) = {})
    /\ [][DeleteMediaStep]_vars

\* a media row was deleted and returned while another one stays stored
C8_Witness ==
    /\ last.op = "delete_media"
    /\ last.result.kind = "return"
    /\ media # {}

\* C9, as stated: create_page is all or nothing: when a provided section is
\* refused, neither the page nor any provided section is stored afterwards; when
\* the call succeeds, the page and every provided section are stored, each
\* section with the new page's id.
C9_AllOrNothing ==
    [][last'.op = "create_page" =>
        IF last'.result.kind = "HTTPException"
        THEN pages' = pages /\ sections' = sections
        ELSE /\ pages' = pages \cup {last'.result.value}
             /\ Cardinality(sections' \ sections) = Len(last'.sections)
             /\ \A s \in sections' \ sections :
                   s.page_id = Some(last'.result.value.id)]_vars

\* C10, as stated: every stored media row has a non-empty title, in every state
\* that create_media, update_media and delete_media calls lead to.
C10_TitleNonEmpty == \A m \in media : TruthyStr(m.title)
====
